---- MODULE Spec2Model ----
\* A model of pyxcode's project.py: the ply tokenizer rules of XCodeProject.Lex,
\* the stack parser XCodeProject.parse_lex, and the plist writer
\* (XCodeProject.Writer, recursive_write, export_project).
\*
\* Text is a sequence of one-character strings.  Python objects live in a heap
\* (a sequence of objects, an object's id is its index) so that the aliasing of
\* obj_stack[0] with the container stored in its parent is kept.
EXTENDS Integers, Sequences, FiniteSets, TLC

VARIABLES
    lexer,      \* the Lex object and ply's scan position over its input
    emitted,    \* the tokens lexer.token() has returned so far
    heap,       \* the OrderedDict / list objects allocated so far
    proj_obj,   \* self.proj_obj: id of the document root
    obj_stack,  \* parse_lex: ids of the open containers, top first
    cur_obj,    \* parse_lex: the pending word, or None
    status,     \* parse_lex: running | finished | eof | raised
    base,       \* the comment-free text a commented input was made from
    writer,     \* the Writer object: indent, condensed
    proj_file,  \* content of the destination file project.pbxproj
    frames,     \* recursive_write: the active calls, innermost first
    reloaded,   \* what a second XCodeProject read back from the destination
    pc          \* which part of the program is running

vars == <<lexer, emitted, heap, proj_obj, obj_stack, cur_obj, status, base,
          writer, proj_file, frames, reloaded, pc>>

\* ---------------------------------------------------------------- bounds

\* Longest token stream fed to parse_lex on its own.
MaxTokens == 8

\* ------------------------------------------------------------ characters

SP == " "
TAB == "\t"
NL == "\n"
QUOTE == "\""
BACKSLASH == "\\"
SEMICOLON == ";"
LBRACE == "{"
RBRACE == "}"
COMMA == ","
LPAREN == "("
RPAREN == ")"
EQUALS == "="
SLASH == "/"
STAR == "*"

Last(s) == s[Len(s)]

\* The elements of s at the indices in S, in increasing order of index.
Pick(s, S) ==
    [j \in 1..Cardinality(S) |->
        s[CHOOSE i \in S : Cardinality({h \in S : h < i}) = j - 1]]

\* ---------------------------------------------------------- python values

\* A value held in a container slot or in cur_obj: a str, None, a reference to
\* a heap object, or an int (a value the writer does not expect).
Str(s) == [t |-> "str", s |-> s, id |-> 0]
None == [t |-> "none", s |-> <<>>, id |-> 0]
Ref(i) == [t |-> "ref", s |-> <<>>, id |-> i]
IntVal(n) == [t |-> "int", s |-> <<>>, id |-> n]

\* collections.OrderedDict()
NewDict == [kind |-> "dict", keys |-> <<>>, vals |-> <<>>]
\* []
NewList == [kind |-> "list", keys |-> <<>>, vals |-> <<>>]

\* Mutant: assigning an existing key moves it to the end.
DictSetMoveToEnd(o, k, v) ==
    LET keep == {i \in DOMAIN o.keys : o.keys[i] # k}
    IN [o EXCEPT !.keys = Append(Pick(o.keys, keep), k),
                 !.vals = Append(Pick(o.vals, keep), v)]

\* OrderedDict.__setitem__: an existing key keeps its position and gets the
\* new value, a new key is added at the end.
DictSet(o, k, v) ==
    IF \E i \in DOMAIN o.keys : o.keys[i] = k
    THEN LET i == CHOOSE j \in DOMAIN o.keys : o.keys[j] = k
         IN [o EXCEPT !.vals[i] = v]
    ELSE [o EXCEPT !.keys = Append(o.keys, k), !.vals = Append(o.vals, v)]

\* list.append
ListAppend(o, v) == [o EXCEPT !.vals = Append(o.vals, v)]

\* ------------------------------------------------------------- parse_lex

\* The parser's state as one value: the locals of parse_lex and the objects
\* it builds.
PState == [heap |-> heap, proj_obj |-> proj_obj, obj_stack |-> obj_stack,
           cur_obj |-> cur_obj, status |-> status]

SetPState(P) ==
    /\ heap' = P.heap
    /\ proj_obj' = P.proj_obj
    /\ obj_stack' = P.obj_stack
    /\ cur_obj' = P.cur_obj
    /\ status' = P.status

\* __init__ sets self.proj_obj = OrderedDict(); parse_lex starts with an empty
\* stack and cur_obj = None.
PInit == [heap |-> <<NewDict>>, proj_obj |-> 1, obj_stack |-> <<>>,
          cur_obj |-> None, status |-> "running"]

\* An exception leaves parse_lex (and __init__): nothing is assigned.
Raise(P) == [P EXCEPT !.status = "raised"]

Top(P) == P.heap[Head(P.obj_stack)]

\* obj_stack[0][cur_obj] = v, on a stack known to be non-empty: item assignment
\* on a list with a str or None index is a TypeError.
StoreUnderPending(P, v) ==
    IF Top(P).kind = "dict"
    THEN [P EXCEPT !.heap[Head(P.obj_stack)] = DictSet(@, P.cur_obj, v)]
    ELSE Raise(P)

\* Push a newly allocated object whose id is Len(heap) + 1.
PushNew(P, o) ==
    [P EXCEPT !.heap = Append(@, o),
              !.obj_stack = <<Len(P.heap) + 1>> \o @,
              !.cur_obj = None]

on_LBRACE(P) ==
    IF P.obj_stack # <<>>
    THEN LET Q == StoreUnderPending(P, Ref(Len(P.heap) + 1))
         IN IF Q.status = "raised" THEN Q ELSE PushNew(Q, NewDict)
    ELSE PushNew(P, NewDict)

\* Mutant: the brace that empties the stack does not end the loop.
on_RBRACE_NoFinish(P) ==
    IF P.obj_stack = <<>>
    THEN Raise(P)
    ELSE IF Len(P.obj_stack) = 1
         THEN [P EXCEPT !.obj_stack = <<>>, !.proj_obj = Head(P.obj_stack)]
         ELSE [P EXCEPT !.obj_stack = Tail(@)]

\* Mutant: a closing brace on an empty stack is passed over.
on_RBRACE_IgnoreUnmatched(P) ==
    IF P.obj_stack = <<>>
    THEN P
    ELSE IF Len(P.obj_stack) = 1
         THEN [P EXCEPT !.obj_stack = <<>>, !.status = "finished",
                        !.proj_obj = Head(P.obj_stack)]
         ELSE [P EXCEPT !.obj_stack = Tail(@)]

on_RBRACE(P) ==
    IF P.obj_stack = <<>>
    THEN Raise(P)
    ELSE IF Len(P.obj_stack) = 1
         THEN [P EXCEPT !.obj_stack = <<>>, !.status = "finished",
                        !.proj_obj = Head(P.obj_stack)]
         ELSE [P EXCEPT !.obj_stack = Tail(@)]

on_LPAREN(P) ==
    IF P.obj_stack = <<>>
    THEN Raise(P)
    ELSE LET Q == StoreUnderPending(P, Ref(Len(P.heap) + 1))
         IN IF Q.status = "raised" THEN Q ELSE PushNew(Q, NewList)

\* Mutant: the pending register is appended even when it is None.
on_RPAREN_AlwaysAppend(P) ==
    IF P.obj_stack = <<>> \/ Top(P).kind # "list"
    THEN Raise(P)
    ELSE [P EXCEPT !.heap[Head(P.obj_stack)] = ListAppend(@, P.cur_obj),
                   !.cur_obj = None,
                   !.obj_stack = Tail(@)]

on_RPAREN(P) ==
    IF P.obj_stack = <<>>
    THEN Raise(P)
    ELSE IF P.cur_obj # None
         THEN IF Top(P).kind = "list"
              THEN [P EXCEPT !.heap[Head(P.obj_stack)] = ListAppend(@, P.cur_obj),
                             !.cur_obj = None,
                             !.obj_stack = Tail(@)]
              ELSE Raise(P)
         ELSE [P EXCEPT !.obj_stack = Tail(@)]

on_SEMICOLON(P) == P

on_COMMA(P) ==
    IF P.obj_stack = <<>> \/ Top(P).kind # "list"
    THEN Raise(P)
    ELSE [P EXCEPT !.heap[Head(P.obj_stack)] = ListAppend(@, P.cur_obj),
                   !.cur_obj = None]

\* Mutant: the check of the pending register is missing.
on_EQUALS_NoCheck(P) == P

on_EQUALS(P) == IF P.cur_obj = None THEN Raise(P) ELSE P

on_WORD(P, value) ==
    IF P.cur_obj = None
    THEN [P EXCEPT !.cur_obj = Str(value)]
    ELSE IF P.obj_stack = <<>>
         THEN Raise(P)
         ELSE LET Q == StoreUnderPending(P, Str(value))
              IN IF Q.status = "raised" THEN Q ELSE [Q EXCEPT !.cur_obj = None]

\* The branch of the while loop's body taken for token tok.
ParseToken(P, tok) ==
    CASE tok.type = "LBRACE" -> on_LBRACE(P)
      [] tok.type = "RBRACE" -> on_RBRACE(P)
      [] tok.type = "LPAREN" -> on_LPAREN(P)
      [] tok.type = "RPAREN" -> on_RPAREN(P)
      [] tok.type = "SEMICOLON" -> on_SEMICOLON(P)
      [] tok.type = "COMMA" -> on_COMMA(P)
      [] tok.type = "EQUALS" -> on_EQUALS(P)
      [] tok.type = "WORD" -> on_WORD(P, tok.value)

\* lexer.token() returned None: break.
on_EOF(P) == [P EXCEPT !.status = "eof"]

\* ---------------------------------------------------------------- tokens

Tok(type, value) == [type |-> type, value |-> value]

PunctType(c) ==
    CASE c = SEMICOLON -> "SEMICOLON"
      [] c = LBRACE -> "LBRACE"
      [] c = RBRACE -> "RBRACE"
      [] c = COMMA -> "COMMA"
      [] c = LPAREN -> "LPAREN"
      [] c = RPAREN -> "RPAREN"
      [] c = EQUALS -> "EQUALS"

Punct == {SEMICOLON, LBRACE, RBRACE, COMMA, LPAREN, RPAREN, EQUALS}

\* The word texts of the token streams fed to parse_lex on its own.
StreamWords == {<<"a">>, <<"b">>}

StreamTokens ==
    {Tok(PunctType(c), <<c>>) : c \in Punct} \cup {Tok("WORD", w) : w \in StreamWords}

\* ------------------------------------------------- parse_lex on its own

NoLexer == [lexdata |-> <<>>, lexpos |-> 0, comment_open |-> FALSE,
            string |-> <<>>, string_open |-> FALSE]
NoWriter == [indent |-> 1, condensed |-> FALSE]

ParserAtStart ==
    /\ heap = PInit.heap
    /\ proj_obj = PInit.proj_obj
    /\ obj_stack = PInit.obj_stack
    /\ cur_obj = PInit.cur_obj
    /\ status = PInit.status

InitParse ==
    /\ ParserAtStart
    /\ lexer = NoLexer
    /\ emitted = <<>>
    /\ base = <<>>
    /\ writer = NoWriter
    /\ proj_file = <<>>
    /\ frames = <<>>
    /\ reloaded = <<>>
    /\ pc = "parse"

\* One iteration of the while loop with the token the stream delivers.
Feed(tok) ==
    /\ pc = "parse"
    /\ status = "running"
    /\ Len(emitted) < MaxTokens
    /\ emitted' = Append(emitted, tok)
    /\ SetPState(ParseToken(PState, tok))
    /\ UNCHANGED <<lexer, base, writer, proj_file, frames, reloaded, pc>>

Par_LBRACE == Feed(Tok("LBRACE", <<LBRACE>>))
Par_RBRACE == Feed(Tok("RBRACE", <<RBRACE>>))
Par_LPAREN == Feed(Tok("LPAREN", <<LPAREN>>))
Par_RPAREN == Feed(Tok("RPAREN", <<RPAREN>>))
Par_SEMICOLON == Feed(Tok("SEMICOLON", <<SEMICOLON>>))
Par_COMMA == Feed(Tok("COMMA", <<COMMA>>))
Par_EQUALS == Feed(Tok("EQUALS", <<EQUALS>>))
Par_WORD == \E w \in StreamWords : Feed(Tok("WORD", w))

\* The stream ends: token() returns None and the loop breaks.
Par_EOF ==
    /\ pc = "parse"
    /\ status = "running"
    /\ SetPState(on_EOF(PState))
    /\ UNCHANGED <<lexer, emitted, base, writer, proj_file, frames, reloaded, pc>>

NextParse ==
    \/ Par_LBRACE
    \/ Par_RBRACE
    \/ Par_LPAREN
    \/ Par_RPAREN
    \/ Par_SEMICOLON
    \/ Par_COMMA
    \/ Par_EQUALS
    \/ Par_WORD
    \/ Par_EOF

SpecParse == InitParse /\ [][NextParse]_vars

\* ------------------------------------------------------- XCodeProject.Lex

\* The printable ASCII characters, code 32 first ("<96>" holds the place of
\* the backquote, which a string of this language cannot contain).
Printable ==
    <<
       " ", "!", "\"", "#", "$", "%", "&", "'", "(", ")", "*", "+",
       ",", "-", ".", "/", "0", "1", "2", "3", "4", "5", "6", "7",
       "8", "9", ":", ";", "<", "=", ">", "?", "@", "A", "B", "C",
       "D", "E", "F", "G", "H", "I", "J", "K", "L", "M", "N", "O",
       "P", "Q", "R", "S", "T", "U", "V", "W", "X", "Y", "Z", "[",
       "\\", "]", "^", "_", "<96>", "a", "b", "c", "d", "e", "f", "g",
       "h", "i", "j", "k", "l", "m", "n", "o", "p", "q", "r", "s",
       "t", "u", "v", "w", "x", "y", "z", "{", "|", "}", "~"
    >>

CR == "\r"
FF == "\f"

\* The character at 1-based position p of s, "" past the end.
At(s, p) == IF p >= 1 /\ p <= Len(s) THEN s[p] ELSE ""

\* t_ignore = '\t\n': skipped by ply before any rule is tried.
Ignored(c) == c \in {TAB, NL}

\* \s on the bytes that are not skipped first.
IsSpace(c) == c \in {SP, TAB, NL, CR, FF}

\* The character class of t_WORD:  [!|#-'|\*|\+|\--:|<|>-\[|\]-z|\||~]
WordClass ==
    {Printable[i] : i \in
        {i \in DOMAIN Printable :
            LET c == Printable[i]
                o == 31 + i
            IN \/ c = "!"
               \/ c = "|"
               \/ (35 <= o /\ o <= 39)
               \/ c = STAR
               \/ c = "+"
               \/ (45 <= o /\ o <= 58)
               \/ c = "<"
               \/ (62 <= o /\ o <= 91)
               \/ (93 <= o /\ o <= 122)
               \/ c = "~"}}

InWordClass(c) == c \in WordClass

RECURSIVE WordRunLen(_, _)
\* [..]+ : the length of the longest run of word-class characters from p.
WordRunLen(s, p) ==
    IF InWordClass(At(s, p)) THEN 1 + WordRunLen(s, p + 1) ELSE 0

RECURSIVE LineRestLen(_, _)
\* .* : the number of characters from p up to the next newline or the end.
LineRestLen(s, p) ==
    IF At(s, p) # "" /\ At(s, p) # NL THEN 1 + LineRestLen(s, p + 1) ELSE 0

\* The master regular expression: ply joins the rule functions' patterns in
\* the order the functions are defined, and the first alternative that
\* matches at p wins ("error" when none does).
RuleAt(s, p) ==
    LET c == At(s, p)
        d == At(s, p + 1)
    IN IF IsSpace(c) THEN "SPACE"
       ELSE IF c = QUOTE THEN "QUOTE"
       ELSE IF c = BACKSLASH /\ d = QUOTE THEN "QUOTE_LITERAL"
       ELSE IF c = BACKSLASH /\ d = "n" THEN "NEWLINE_LITERAL"
       ELSE IF c = SEMICOLON THEN "SEMICOLON"
       ELSE IF c = LBRACE THEN "LBRACE"
       ELSE IF c = RBRACE THEN "RBRACE"
       ELSE IF c = COMMA THEN "COMMA"
       ELSE IF c = LPAREN THEN "LPAREN"
       ELSE IF c = RPAREN THEN "RPAREN"
       ELSE IF c = EQUALS THEN "EQUALS"
       ELSE IF c = SLASH /\ d = STAR THEN "LCOMMENT"
       ELSE IF c = STAR /\ d = SLASH THEN "RCOMMENT"
       ELSE IF c = SLASH /\ d = SLASH THEN "COMMENT"
       ELSE IF InWordClass(c) THEN "WORD"
       ELSE "error"

\* The length of the rule's match at p.
MatchLen(rule, s, p) ==
    CASE rule = "COMMENT" -> 2 + LineRestLen(s, p + 2)
      [] rule = "WORD" -> WordRunLen(s, p)
      [] rule \in {"QUOTE_LITERAL", "NEWLINE_LITERAL", "LCOMMENT", "RCOMMENT"} -> 2
      [] OTHER -> 1

NoTok == Tok("NONE", <<>>)
EofTok == Tok("EOF", <<>>)

\* Lex.__init__ and lexer.input(fp_bytes); lexpos is 1-based here.
NewLexer(text) ==
    [lexdata |-> text, lexpos |-> 1, comment_open |-> FALSE,
     string |-> <<>>, string_open |-> FALSE]

\* What a rule function leaves: the lexer, and the token returned (NoTok
\* when the function returns nothing).
Out(L, tok) == [lexer |-> L, tok |-> tok]

\* update_string, as used by a caller that returns nothing when it succeeds.
update_string(L, value) ==
    IF L.string_open THEN [L EXCEPT !.string = @ \o value] ELSE L

t_SPACE(L, value) == Out(update_string(L, value), NoTok)

t_QUOTE(L, value) ==
    IF L.comment_open
    THEN Out(L, NoTok)
    ELSE IF ~L.string_open
         THEN Out([L EXCEPT !.string = <<QUOTE>>, !.string_open = TRUE], NoTok)
         ELSE Out([L EXCEPT !.string = @ \o <<QUOTE>>, !.string_open = FALSE],
                  Tok("WORD", L.string \o <<QUOTE>>))

t_QUOTE_LITERAL(L, value) ==
    IF L.comment_open
    THEN Out(L, NoTok)
    ELSE IF L.string_open
         THEN Out(update_string(L, value), NoTok)
         ELSE Out(L, Tok("WORD", value))

t_NEWLINE_LITERAL(L, value) == Out(update_string(L, value), NoTok)

general_op(L, type, value) ==
    IF L.comment_open
    THEN Out(L, NoTok)
    ELSE IF L.string_open
         THEN Out(update_string(L, value), NoTok)
         ELSE Out(L, Tok(type, value))

t_LCOMMENT(L, value) == Out([L EXCEPT !.comment_open = TRUE], NoTok)

t_RCOMMENT(L, value) == Out([L EXCEPT !.comment_open = FALSE], NoTok)

t_COMMENT(L, value) == Out(L, NoTok)

t_WORD(L, value) == general_op(L, "WORD", value)

\* The rule function called for a match.
RuleFunction(rule, L, value) ==
    CASE rule = "SPACE" -> t_SPACE(L, value)
      [] rule = "QUOTE" -> t_QUOTE(L, value)
      [] rule = "QUOTE_LITERAL" -> t_QUOTE_LITERAL(L, value)
      [] rule = "NEWLINE_LITERAL" -> t_NEWLINE_LITERAL(L, value)
      [] rule = "LCOMMENT" -> t_LCOMMENT(L, value)
      [] rule = "RCOMMENT" -> t_RCOMMENT(L, value)
      [] rule = "COMMENT" -> t_COMMENT(L, value)
      [] rule = "WORD" -> t_WORD(L, value)
      [] OTHER -> general_op(L, rule, value)

\* What ply does at the scan position: "eof", "ignore", "error" or a rule.
ScanAt(L) ==
    IF L.lexpos > Len(L.lexdata) THEN "eof"
    ELSE IF Ignored(At(L.lexdata, L.lexpos)) THEN "ignore"
    ELSE RuleAt(L.lexdata, L.lexpos)

\* Mutant: t_error does not skip the character no rule matches.
LexStep_NoSkip(L) ==
    LET what == ScanAt(L)
    IN CASE what = "eof" -> Out(L, EofTok)
         [] what = "ignore" -> Out([L EXCEPT !.lexpos = @ + 1], NoTok)
         [] what = "error" -> Out(L, NoTok)
         [] OTHER ->
               LET n == MatchLen(what, L.lexdata, L.lexpos)
                   value == SubSeq(L.lexdata, L.lexpos, L.lexpos + n - 1)
               IN RuleFunction(what, [L EXCEPT !.lexpos = @ + n], value)

\* One turn of the loop inside lexer.token(): skip an ignored character, or
\* call the matching rule's function on the match with lexpos moved past it,
\* or call t_error, which skips one character.
LexStep(L) ==
    LET what == ScanAt(L)
    IN CASE what = "eof" -> Out(L, EofTok)
         [] what \in {"ignore", "error"} ->
               Out([L EXCEPT !.lexpos = @ + 1], NoTok)
         [] OTHER ->
               LET n == MatchLen(what, L.lexdata, L.lexpos)
                   value == SubSeq(L.lexdata, L.lexpos, L.lexpos + n - 1)
               IN RuleFunction(what, [L EXCEPT !.lexpos = @ + n], value)

RECURSIVE token(_)
\* lexer.token(): scan until a rule function returns a token or the input
\* ends (EofTok stands for None).
token(L) ==
    LET r == LexStep(L)
    IN IF r.tok = NoTok THEN token(r.lexer) ELSE r

\* ------------------------------------------------ the tokenizer on its own

\* Longest input given to the tokenizer on its own.
MaxLexLen == 4

\* The characters of those inputs: one for every rule, the ignored tab and
\* newline, and the backslash, which alone matches no rule.
LexAlphabet ==
    {SP, TAB, NL, QUOTE, BACKSLASH, "n", "a", SEMICOLON, LBRACE, RBRACE, COMMA,
     LPAREN, RPAREN, EQUALS, SLASH, STAR}

LexInputs == UNION {[1..n -> LexAlphabet] : n \in 0..MaxLexLen}

InitLex ==
    /\ lexer \in {NewLexer(text) : text \in LexInputs}
    /\ emitted = <<>>
    /\ ParserAtStart
    /\ base = <<>>
    /\ writer = NoWriter
    /\ proj_file = <<>>
    /\ frames = <<>>
    /\ reloaded = <<>>
    /\ pc = "lex"

\* The caller drains the lexer: every token returned is recorded.
LexAdvance ==
    /\ pc = "lex"
    /\ LET r == LexStep(lexer)
       IN /\ lexer' = r.lexer
          /\ emitted' = IF r.tok \in {NoTok, EofTok} THEN emitted
                        ELSE Append(emitted, r.tok)
    /\ pc' = IF ScanAt(lexer) = "eof" THEN "lexed" ELSE "lex"
    /\ UNCHANGED <<heap, proj_obj, obj_stack, cur_obj, status, base, writer,
                   proj_file, frames, reloaded>>

Lex_SPACE == ScanAt(lexer) = "SPACE" /\ LexAdvance
Lex_QUOTE == ScanAt(lexer) = "QUOTE" /\ LexAdvance
Lex_QUOTE_LITERAL == ScanAt(lexer) = "QUOTE_LITERAL" /\ LexAdvance
Lex_NEWLINE_LITERAL == ScanAt(lexer) = "NEWLINE_LITERAL" /\ LexAdvance
Lex_SEMICOLON == ScanAt(lexer) = "SEMICOLON" /\ LexAdvance
Lex_LBRACE == ScanAt(lexer) = "LBRACE" /\ LexAdvance
Lex_RBRACE == ScanAt(lexer) = "RBRACE" /\ LexAdvance
Lex_COMMA == ScanAt(lexer) = "COMMA" /\ LexAdvance
Lex_LPAREN == ScanAt(lexer) = "LPAREN" /\ LexAdvance
Lex_RPAREN == ScanAt(lexer) = "RPAREN" /\ LexAdvance
Lex_EQUALS == ScanAt(lexer) = "EQUALS" /\ LexAdvance
Lex_LCOMMENT == ScanAt(lexer) = "LCOMMENT" /\ LexAdvance
Lex_RCOMMENT == ScanAt(lexer) = "RCOMMENT" /\ LexAdvance
Lex_COMMENT == ScanAt(lexer) = "COMMENT" /\ LexAdvance
Lex_WORD == ScanAt(lexer) = "WORD" /\ LexAdvance
Lex_ignore == ScanAt(lexer) = "ignore" /\ LexAdvance
Lex_error == ScanAt(lexer) = "error" /\ LexAdvance
Lex_eof == ScanAt(lexer) = "eof" /\ LexAdvance

NextLex ==
    \/ Lex_SPACE
    \/ Lex_QUOTE
    \/ Lex_QUOTE_LITERAL
    \/ Lex_NEWLINE_LITERAL
    \/ Lex_SEMICOLON
    \/ Lex_LBRACE
    \/ Lex_RBRACE
    \/ Lex_COMMA
    \/ Lex_LPAREN
    \/ Lex_RPAREN
    \/ Lex_EQUALS
    \/ Lex_LCOMMENT
    \/ Lex_RCOMMENT
    \/ Lex_COMMENT
    \/ Lex_WORD
    \/ Lex_ignore
    \/ Lex_error
    \/ Lex_eof

SpecLex == InitLex /\ [][NextLex]_vars

\* Longest input of the runs in which the caller is known to keep calling.
MaxFairLen == 3

InitLexFair ==
    /\ lexer \in {NewLexer(text) :
                     text \in UNION {[1..n -> LexAlphabet] : n \in 0..MaxFairLen}}
    /\ emitted = <<>>
    /\ ParserAtStart
    /\ base = <<>>
    /\ writer = NoWriter
    /\ proj_file = <<>>
    /\ frames = <<>>
    /\ reloaded = <<>>
    /\ pc = "lex"

\* The caller keeps calling lexer.token() until it returns None.
SpecLexFair == InitLexFair /\ [][NextLex]_vars /\ WF_vars(NextLex)

\* ------------------------------------------------ text to document

\* The value tree below v in heap h: what the document looks like to a reader
\* that follows the references.
RECURSIVE Tree(_, _)
Tree(h, v) ==
    IF v.t = "ref"
    THEN [kind |-> h[v.id].kind,
          keys |-> h[v.id].keys,
          vals |-> [i \in DOMAIN h[v.id].vals |-> Tree(h, h[v.id].vals[i])],
          leaf |-> None]
    ELSE [kind |-> "leaf", keys |-> <<>>, vals |-> <<>>, leaf |-> v]

\* What parse_lex leaves to its caller: the tree of self.proj_obj, or nothing
\* when it raised.
Document(P) ==
    IF P.status = "raised" THEN <<>> ELSE <<Tree(P.heap, Ref(P.proj_obj))>>

\* One iteration of parse_lex's loop on a real lexer: tok = lexer.token(),
\* then break at the end of input or take the token's branch.
ParseLexIter ==
    /\ pc = "parse_text"
    /\ status = "running"
    /\ LET r == token(lexer)
       IN /\ lexer' = r.lexer
          /\ IF r.tok = EofTok
             THEN emitted' = emitted /\ SetPState(on_EOF(PState))
             ELSE /\ emitted' = Append(emitted, r.tok)
                  /\ SetPState(ParseToken(PState, r.tok))
    /\ UNCHANGED <<base, writer, proj_file, frames, reloaded, pc>>

RECURSIVE RunParse(_, _)
\* parse_lex run to its end from lexer state L and parser state P.
RunParse(L, P) ==
    IF P.status # "running" THEN P
    ELSE LET r == token(L)
         IN IF r.tok = EofTok THEN on_EOF(P)
            ELSE RunParse(r.lexer, ParseToken(P, r.tok))

\* XCodeProject.__init__ up to and including parse_lex, on the given text.
ParseText(text) == RunParse(NewLexer(text), PInit)

\* --------------------------------------------------- inputs with comments

\* Comment-free project texts.
CommentBases ==
    {<<LBRACE, "a", SP, EQUALS, SP, "1", SEMICOLON, RBRACE>>,
     <<LBRACE, "a", EQUALS, LPAREN, "b", COMMA, "c", RPAREN, SEMICOLON, RBRACE>>,
     <<LBRACE, NL, TAB, "a", SP, EQUALS, SP, QUOTE, "b", SP, "c", QUOTE,
       SEMICOLON, NL, RBRACE, NL>>}

\* Block and line comments (a line comment with the newline that ends it).
Comments ==
    {<<SLASH, STAR, STAR, SLASH>>,
     <<SLASH, STAR, SP, "x", SP, STAR, SLASH>>,
     <<SLASH, STAR, "x", STAR, SLASH>>,
     <<SLASH, STAR, SP, SEMICOLON, RBRACE, SP, STAR, SLASH>>,
     <<SLASH, SLASH, NL>>,
     <<SLASH, SLASH, SP, "x", NL>>}

RECURSIVE Boundaries(_)
\* The scan positions between the tokens of the lexer's input: every position
\* at which ply looks for the next match while no quoted string is open.
Boundaries(L) ==
    (IF L.string_open THEN {} ELSE {L.lexpos})
        \cup (IF ScanAt(L) = "eof" THEN {} ELSE Boundaries(LexStep(L).lexer))

\* text with comment c put before position p.
InsertAt(text, p, c) ==
    SubSeq(text, 1, p - 1) \o c \o SubSeq(text, p, Len(text))

InitComment ==
    /\ base \in CommentBases
    /\ \E p \in Boundaries(NewLexer(base)), c \in Comments :
          lexer = NewLexer(InsertAt(base, p, c))
    /\ emitted = <<>>
    /\ ParserAtStart
    /\ writer = NoWriter
    /\ proj_file = <<>>
    /\ frames = <<>>
    /\ reloaded = <<>>
    /\ pc = "parse_text"

NextComment == ParseLexIter

SpecComment == InitComment /\ [][NextComment]_vars

\* ------------------------------------------- inputs with trailing text

\* Longest text put after the brace that closes the root.
MaxTrail == 3

\* Complete project texts, each ending with the brace that closes its root.
TrailBases ==
    {<<LBRACE, "a", SP, EQUALS, SP, "1", SEMICOLON, RBRACE>>,
     <<LBRACE, "a", EQUALS, LPAREN, "b", COMMA, "c", RPAREN, SEMICOLON, RBRACE>>,
     <<LBRACE, "a", EQUALS, LBRACE, "b", EQUALS, "1", SEMICOLON, RBRACE,
       SEMICOLON, RBRACE>>}

\* The characters of the text after the root: structure, words, an unclosed
\* quote, comment delimiters and the backslash no rule matches.
TrailAlphabet ==
    {RBRACE, RPAREN, LBRACE, EQUALS, "a", QUOTE, BACKSLASH, SP, SLASH, STAR}

Trailers == UNION {[1..n -> TrailAlphabet] : n \in 0..MaxTrail}

InitTrailing ==
    /\ base \in TrailBases
    /\ \E t \in Trailers : lexer = NewLexer(base \o t)
    /\ emitted = <<>>
    /\ ParserAtStart
    /\ writer = NoWriter
    /\ proj_file = <<>>
    /\ frames = <<>>
    /\ reloaded = <<>>
    /\ pc = "parse_text"

NextTrailing == ParseLexIter

SpecTrailing == InitTrailing /\ [][NextTrailing]_vars

\* C12: the brace that empties the container stack ends the parse: the scan
\* position never passes it, and the parse ends finished, with the document
\* of the text up to that brace, whatever text follows.
C12_TrailingDiscarded ==
    pc = "parse_text"
        => /\ lexer.lexpos <= Len(base) + 1
           /\ status # "running"
                => /\ status = "finished"
                   /\ lexer.lexpos = Len(base) + 1
                   /\ Document(PState) = Document(ParseText(base))

\* C12 witness: a parse has finished with a closing brace and a quote left
\* unread behind the root.
C12_Witness ==
    /\ pc = "parse_text"
    /\ status = "finished"
    /\ Len(lexer.lexdata) = Len(base) + 2
    /\ lexer.lexdata[Len(base) + 1] = RBRACE
    /\ lexer.lexdata[Len(base) + 2] = QUOTE
    /\ Len(heap[proj_obj].keys) = 1

\* C3: an input with a comment put between two of its tokens is parsed to the
\* same document as the input without the comment.
C3_CommentTransparency ==
    (pc = "parse_text" /\ status # "running")
        => Document(PState) = Document(ParseText(base))

\* ------------------------------------------------ XCodeProject.Writer

T_isa == <<"i", "s", "a">>
PBXBuildFile == <<"P", "B", "X", "B", "u", "i", "l", "d", "F", "i", "l", "e">>
PBXFileReference == <<"P", "B", "X", "F", "i", "l", "e", "R", "e", "f", "e", "r", "e", "n", "c", "e">>
\* recursive_write: the record kinds written on one line.
CondensedKinds == {PBXBuildFile, PBXFileReference}

\* '// !$*UTF8*$!\n{\n'
Header ==
    <<SLASH, SLASH, SP, "!", "$", STAR, "U", "T", "F", "8", STAR, "$", "!", NL,
      LBRACE, NL>>

\* '\t' * n
Tabs(n) == [i \in 1..n |-> TAB]

RECURSIVE Digits(_)
\* The decimal digits of a natural number.
Digits(n) ==
    IF n < 10 THEN <<Printable[17 + n]>>
    ELSE Digits(n \div 10) \o <<Printable[17 + (n % 10)]>>

\* '{}'.format(v) and '%s' % v for a str, None or an int.
Format(v) ==
    CASE v.t = "str" -> v.s
      [] v.t = "none" -> <<"N", "o", "n", "e">>
      [] v.t = "int" -> Digits(v.id)

\* The writer with its file: w is the Writer object, f the file's content.
WState == [w |-> writer, f |-> proj_file]

SetWState(ws) == writer' = ws.w /\ proj_file' = ws.f

\* self.proj_file.write(text)
write(ws, text) == [ws EXCEPT !.f = @ \o text]

\* open(..., 'wb') truncates the file; Writer.__init__ writes the header.
NewWriter == [w |-> [indent |-> 1, condensed |-> FALSE], f |-> Header]

write_indent(ws) ==
    IF ~ws.w.condensed THEN write(ws, Tabs(ws.w.indent)) ELSE ws

write_newline(ws) == IF ~ws.w.condensed THEN write(ws, <<NL>>) ELSE ws

write_var(ws, k, v) ==
    write_newline(
        write(write_indent(ws),
              Format(k) \o <<SP, EQUALS, SP>> \o Format(v) \o <<SEMICOLON, SP>>))

write_dict(ws, k) ==
    LET a == write_newline(
                 write(write_indent(ws),
                       Format(k) \o <<SP, EQUALS, SP, LBRACE, SP>>))
    IN [a EXCEPT !.w.indent = @ + 1]

\* Mutant: in condensed mode the footer leaves the depth as it is.
end_dict_KeepDepthCondensed(ws) ==
    LET a == IF ws.w.condensed THEN ws ELSE [ws EXCEPT !.w.indent = @ - 1]
    IN write_newline(write(write_indent(a), <<RBRACE, SEMICOLON, SP>>))

end_dict(ws) ==
    LET a == [ws EXCEPT !.w.indent = @ - 1]
    IN write_newline(write(write_indent(a), <<RBRACE, SEMICOLON, SP>>))

write_list(ws, k) ==
    LET a == write_newline(
                 write(write_indent(ws),
                       Format(k) \o <<SP, EQUALS, SP, LPAREN, SP>>))
    IN [a EXCEPT !.w.indent = @ + 1]

write_list_entry(ws, v) ==
    write_newline(write(write_indent(ws), Format(v) \o <<COMMA, SP>>))

end_list(ws) ==
    LET a == [ws EXCEPT !.w.indent = @ - 1]
    IN write_newline(write(write_indent(a), <<RPAREN, SEMICOLON, SP>>))

\* dict.get(k, default)
DictGet(o, k, default) ==
    IF \E i \in DOMAIN o.keys : o.keys[i] = k
    THEN o.vals[CHOOSE i \in DOMAIN o.keys : o.keys[i] = k]
    ELSE default

\* v.get('isa', '') in ['PBXBuildFile', 'PBXFileReference']
IsCondensedKind(o) ==
    LET v == DictGet(o, Str(T_isa), Str(<<>>))
    IN v.t = "str" /\ v.s \in CondensedKinds

\* --------------------------------------------------- recursive_write

\* One active call recursive_write(obj, writer): obj is the container's id,
\* i the index of the entry the loop is at, condensed the local variable of
\* the caller's iteration that made the call.  start records how long the
\* file was when the caller began to write this container.
Frame(obj, start, condensed) ==
    [obj |-> obj, i |-> 1, start |-> start, condensed |-> condensed]

TopObj == heap[Head(frames).obj]
AtEntry == Head(frames).i <= Len(TopObj.vals)
EntryKey == TopObj.keys[Head(frames).i]
EntryVal == TopObj.vals[Head(frames).i]

\* The caller's loop moves on to its next entry.
NextEntry(fs) == <<[Head(fs) EXCEPT !.i = @ + 1]>> \o Tail(fs)

Writing == pc = "writing" /\ frames # <<>>

\* export_project: open the destination for writing and make the Writer.
Exp_open ==
    /\ pc = "build"
    /\ pc' = "writing"
    /\ SetWState(NewWriter)
    /\ frames' = <<Frame(proj_obj, 0, FALSE)>>
    /\ UNCHANGED <<lexer, emitted, heap, proj_obj, obj_stack, cur_obj, status,
                   base, reloaded>>

\* A map entry whose value is an OrderedDict: the header, then the call.
W_dict ==
    /\ Writing /\ TopObj.kind = "dict" /\ AtEntry
    /\ EntryVal.t = "ref" /\ heap[EntryVal.id].kind = "dict"
    /\ LET c == IsCondensedKind(heap[EntryVal.id])
           a == IF c THEN [write_indent(WState) EXCEPT !.w.condensed = TRUE]
                ELSE WState
       IN /\ SetWState(write_dict(a, EntryKey))
          /\ frames' = <<Frame(EntryVal.id, Len(proj_file), c)>> \o frames
    /\ UNCHANGED <<lexer, emitted, heap, proj_obj, obj_stack, cur_obj, status,
                   base, reloaded, pc>>

\* The call for a nested OrderedDict returns: the footer.
W_end_dict ==
    /\ Writing /\ TopObj.kind = "dict" /\ ~AtEntry /\ Len(frames) >= 2
    /\ LET a == end_dict(WState)
       IN SetWState(IF Head(frames).condensed
                    THEN write_newline([a EXCEPT !.w.condensed = FALSE])
                    ELSE a)
    /\ frames' = NextEntry(Tail(frames))
    /\ UNCHANGED <<lexer, emitted, heap, proj_obj, obj_stack, cur_obj, status,
                   base, reloaded, pc>>

\* A map entry whose value is a list: the header, then the call.
W_list ==
    /\ Writing /\ TopObj.kind = "dict" /\ AtEntry
    /\ EntryVal.t = "ref" /\ heap[EntryVal.id].kind = "list"
    /\ SetWState(write_list(WState, EntryKey))
    /\ frames' = <<Frame(EntryVal.id, Len(proj_file), FALSE)>> \o frames
    /\ UNCHANGED <<lexer, emitted, heap, proj_obj, obj_stack, cur_obj, status,
                   base, reloaded, pc>>

\* The call for a list: one entry.
W_list_entry ==
    /\ Writing /\ TopObj.kind = "list" /\ AtEntry
    /\ SetWState(write_list_entry(WState, EntryVal))
    /\ frames' = NextEntry(frames)
    /\ UNCHANGED <<lexer, emitted, heap, proj_obj, obj_stack, cur_obj, status,
                   base, reloaded, pc>>

\* The call for a list returns: the footer.
W_end_list ==
    /\ Writing /\ TopObj.kind = "list" /\ ~AtEntry /\ Len(frames) >= 2
    /\ SetWState(end_list(WState))
    /\ frames' = NextEntry(Tail(frames))
    /\ UNCHANGED <<lexer, emitted, heap, proj_obj, obj_stack, cur_obj, status,
                   base, reloaded, pc>>

\* A map entry whose value is a str.
W_var ==
    /\ Writing /\ TopObj.kind = "dict" /\ AtEntry
    /\ EntryVal.t = "str"
    /\ SetWState(write_var(WState, EntryKey, EntryVal))
    /\ frames' = NextEntry(frames)
    /\ UNCHANGED <<lexer, emitted, heap, proj_obj, obj_stack, cur_obj, status,
                   base, reloaded, pc>>

\* A map entry whose value is none of these: 'Bad variable write!' is raised
\* and leaves export_project, whose with statement closes the file.
W_bad ==
    /\ Writing /\ TopObj.kind = "dict" /\ AtEntry
    /\ EntryVal.t \notin {"ref", "str"}
    /\ pc' = "export_raised"
    /\ frames' = <<>>
    /\ UNCHANGED <<lexer, emitted, heap, proj_obj, obj_stack, cur_obj, status,
                   base, writer, proj_file, reloaded>>

\* The call for the root returns to export_project, which closes the file
\* (Writer.close, which would write the final brace, is not called).
W_return ==
    /\ Writing /\ ~AtEntry /\ Len(frames) = 1
    /\ pc' = "exported"
    /\ frames' = <<>>
    /\ UNCHANGED <<lexer, emitted, heap, proj_obj, obj_stack, cur_obj, status,
                   base, writer, proj_file, reloaded>>

\* A second XCodeProject is made from the exported file: __init__ through
\* parse_lex.
Reload ==
    /\ pc = "exported"
    /\ pc' = "reloaded"
    /\ reloaded' = <<Document(ParseText(proj_file))>>
    /\ UNCHANGED <<lexer, emitted, heap, proj_obj, obj_stack, cur_obj, status,
                   base, writer, proj_file, frames>>

\* ------------------------------------------- building and exporting

\* Most objects a document holds, the root included.
MaxObjects == 3
\* Most entries of one map or list.
MaxEntries == 2

\* The keys, text scalars and other values the documents are built from.
DocKeys == {<<"a">>, T_isa}
DocScalars == {Str(<<"1">>), Str(PBXFileReference), Str(PBXBuildFile)}
DocOthers == {IntVal(7)}

\* What the destination file holds before the export.
PriorContent == <<"o", "l", "d">>

InitExport ==
    /\ ParserAtStart
    /\ lexer = NoLexer
    /\ emitted = <<>>
    /\ base = <<>>
    /\ writer = NoWriter
    /\ proj_file = PriorContent
    /\ frames = <<>>
    /\ reloaded = <<>>
    /\ pc = "build"

Dicts == {id \in DOMAIN heap : heap[id].kind = "dict"}
Lists == {id \in DOMAIN heap : heap[id].kind = "list"}

\* The map has room for key k, or holds k with a scalar that the assignment
\* replaces (a container, once stored, stays: no object is orphaned).
HasRoom(id, k) ==
    IF \E i \in DOMAIN heap[id].keys : heap[id].keys[i] = k
    THEN DictGet(heap[id], k, None).t # "ref"
    ELSE Len(heap[id].keys) < MaxEntries

BuildFrame ==
    UNCHANGED <<lexer, emitted, proj_obj, obj_stack, cur_obj, status, base,
                writer, proj_file, frames, reloaded, pc>>

\* map[key] = value for a scalar (or an int).
B_set ==
    /\ pc = "build"
    /\ \E id \in Dicts, k \in DocKeys, v \in DocScalars \cup DocOthers :
          /\ HasRoom(id, Str(k))
          /\ heap' = [heap EXCEPT ![id] = DictSet(@, Str(k), v)]
    /\ BuildFrame

\* map[key] = collections.OrderedDict()
B_set_dict ==
    /\ pc = "build"
    /\ Len(heap) < MaxObjects
    /\ \E id \in Dicts, k \in DocKeys :
          /\ HasRoom(id, Str(k))
          /\ heap' = Append([heap EXCEPT ![id] =
                                DictSet(@, Str(k), Ref(Len(heap) + 1))],
                            NewDict)
    /\ BuildFrame

\* map[key] = []
B_set_list ==
    /\ pc = "build"
    /\ Len(heap) < MaxObjects
    /\ \E id \in Dicts, k \in DocKeys :
          /\ HasRoom(id, Str(k))
          /\ heap' = Append([heap EXCEPT ![id] =
                                DictSet(@, Str(k), Ref(Len(heap) + 1))],
                            NewList)
    /\ BuildFrame

\* list.append(value)
B_append ==
    /\ pc = "build"
    /\ \E id \in Lists, v \in DocScalars \cup DocOthers :
          /\ Len(heap[id].vals) < MaxEntries
          /\ heap' = [heap EXCEPT ![id] = ListAppend(@, v)]
    /\ BuildFrame

NextExport ==
    \/ B_set
    \/ B_set_dict
    \/ B_set_list
    \/ B_append
    \/ Exp_open
    \/ W_dict
    \/ W_end_dict
    \/ W_list
    \/ W_list_entry
    \/ W_end_list
    \/ W_var
    \/ W_bad
    \/ W_return
    \/ Reload

SpecExport == InitExport /\ [][NextExport]_vars

\* ------------------------------------------------- the group tree

T_children == <<"c", "h", "i", "l", "d", "r", "e", "n">>
T_name == <<"n", "a", "m", "e">>
T_path == <<"p", "a", "t", "h">>
T_sourceTree == <<"s", "o", "u", "r", "c", "e", "T", "r", "e", "e">>
T_objects == <<"o", "b", "j", "e", "c", "t", "s">>
T_rootObject == <<"r", "o", "o", "t", "O", "b", "j", "e", "c", "t">>
T_mainGroup == <<"m", "a", "i", "n", "G", "r", "o", "u", "p">>
T_PBXGroup == <<"P", "B", "X", "G", "r", "o", "u", "p">>
T_group == <<QUOTE, "<", "g", "r", "o", "u", "p", ">", QUOTE>>
\* The ids of the root object and of the main group in the project read.
RootId == <<"R">>
MainId == <<"M">>
DotDot == <<".", ".">>

RECURSIVE split(_, _)
\* str.split(sep) for a one-character separator.
split(str, sep) ==
    IF \A i \in DOMAIN str : str[i] # sep
    THEN <<str>>
    ELSE LET p == CHOOSE i \in DOMAIN str :
                     str[i] = sep /\ \A j \in 1..(i - 1) : str[j] # sep
         IN <<SubSeq(str, 1, p - 1)>> \o split(SubSeq(str, p + 1, Len(str)), sep)

\* [p for p in file_path.split(os.path.sep) if p != '..']
split_into_file_groups(file_path) ==
    LET parts == split(file_path, SLASH)
    IN Pick(parts, {i \in DOMAIN parts : parts[i] # DotDot})

\* os.path.basename
basename(file_path) == Last(split(file_path, SLASH))

\* hashlib.md5(unique_path).hexdigest().upper(): a digest, taken to be free
\* of collisions; the text it was made from stands for it, marked with #.
get_unique_id(unique_path) == <<"#">> \o unique_path

\* list.insert(0, v)
ListInsert0(o, v) == [o EXCEPT !.vals = <<v>> \o @]

\* self.proj_obj['objects']: the id of the registry of all project objects.
Objects(h) == DictGet(h[proj_obj], Str(T_objects), None).id

\* get_isa(isa_id): the registered object, None standing for the KeyError.
get_isa(h, isa_id) == DictGet(h[Objects(h)], isa_id, None)

\* self.main_group, set once by __init__:
\* get_isa(get_isa(proj_obj['rootObject'])['mainGroup']).
main_group(h) ==
    LET root_id == DictGet(h[proj_obj], Str(T_rootObject), None)
        root_object == get_isa(h, root_id)
    IN get_isa(h, DictGet(h[root_object.id], Str(T_mainGroup), None)).id

\* create_new_group: the heap with the new group's children list and the
\* group itself appended (the group is the last object).
create_new_group(h, group_name) ==
    h \o <<NewList,
           [kind |-> "dict",
            keys |-> <<Str(T_isa), Str(T_children), Str(T_name), Str(T_sourceTree)>>,
            vals |-> <<Str(T_PBXGroup), Ref(Len(h) + 1), Str(group_name),
                       Str(T_group)>>]>>

\* The entry add_source_file registers for a file before it places it in the
\* group tree.
FileEntry(file_path) ==
    [kind |-> "dict",
     keys |-> <<Str(T_isa), Str(T_name), Str(T_path)>>,
     vals |-> <<Str(PBXFileReference), Str(basename(file_path)), Str(file_path)>>]

\* The locals of an active call create_groups_for_file(file_path, file_ref_id):
\* i is the index of the loop in group_list, cur_group the id of the object
\* the variable cur_group refers to.
GroupCall(h, file_path, file_ref_id) ==
    [file_ref_id |-> file_ref_id,
     group_list |-> split_into_file_groups(file_path),
     i |-> 1,
     cur_group |-> main_group(h),
     group_id_str |-> <<>>]

\* One turn of the loop of create_groups_for_file in heap h with locals f:
\* the heap and locals it leaves, done when the loop was left by break, raised
\* when an exception left the call.
GroupTurn(h, f) ==
    LET group_name == f.group_list[f.i]
        children == DictGet(h[f.cur_group], Str(T_children), None)
        out(hh, ff, how) == [heap |-> hh, f |-> ff, how |-> how]
    IN IF children.t # "ref"
       THEN out(h, f, "raised")
       ELSE IF Last(f.group_list) = group_name
       THEN out([h EXCEPT ![children.id] = ListAppend(@, f.file_ref_id)], f, "done")
       ELSE
         LET ids == h[children.id].vals
             Named(j) == /\ get_isa(h, ids[j]).t = "ref"
                         /\ DictGet(h[get_isa(h, ids[j]).id], Str(T_name), Str(<<>>))
                                = Str(group_name)
             Found == {j \in DOMAIN ids : Named(j)}
             first == IF Found = {} THEN Len(ids) + 1
                      ELSE CHOOSE j \in Found : \A g \in Found : j <= g
             group_id_str == f.group_id_str \o group_name
             new_group_id == Str(get_unique_id(group_id_str \o T_PBXGroup))
         IN IF \E j \in 1..(first - 1) : j <= Len(ids) /\ get_isa(h, ids[j]).t # "ref"
            THEN out(h, f, "raised")
            ELSE IF Found # {}
            THEN out(h, [f EXCEPT !.i = @ + 1, !.group_id_str = group_id_str,
                                  !.cur_group = get_isa(h, ids[first]).id],
                     "loop")
            ELSE IF get_isa(h, new_group_id) # None
            THEN out(h, f, "raised")
            ELSE LET h1 == create_new_group(h, group_name)
                     g == Len(h1)
                     h2 == [h1 EXCEPT ![Objects(h)] = DictSet(@, new_group_id, Ref(g)),
                                      ![children.id] = ListInsert0(@, new_group_id)]
                 IN out(h2, [f EXCEPT !.i = @ + 1, !.group_id_str = group_id_str,
                                      !.cur_group = g],
                        "loop")

\* Most files added to the project.
MaxFiles == 2

\* The names of the directories and files of the paths added.
PathNames == {<<"a">>, <<"b">>, <<"f">>, DotDot}

\* The paths: one to three names joined by the separator.
GroupPaths ==
    PathNames
        \cup {n1 \o <<SLASH>> \o n2 : n1 \in PathNames, n2 \in PathNames}
        \cup {n1 \o <<SLASH>> \o n2 \o <<SLASH>> \o n3 :
                 n1 \in PathNames, n2 \in PathNames, n3 \in PathNames \ {DotDot}}

\* A project as parse_lex leaves it: the registry with the root object and an
\* empty main group.
GroupsHeap ==
    <<[kind |-> "dict",
       keys |-> <<Str(T_rootObject), Str(T_objects)>>,
       vals |-> <<Str(RootId), Ref(2)>>],
      [kind |-> "dict",
       keys |-> <<Str(RootId), Str(MainId)>>,
       vals |-> <<Ref(3), Ref(4)>>],
      [kind |-> "dict",
       keys |-> <<Str(T_mainGroup)>>,
       vals |-> <<Str(MainId)>>],
      [kind |-> "dict",
       keys |-> <<Str(T_isa), Str(T_children), Str(T_sourceTree)>>,
       vals |-> <<Str(T_PBXGroup), Ref(5), Str(T_group)>>],
      NewList>>

InitGroups ==
    /\ heap = GroupsHeap
    /\ proj_obj = 1
    /\ obj_stack = <<>>
    /\ cur_obj = None
    /\ status = "finished"
    /\ lexer = NoLexer
    /\ emitted = <<>>
    /\ base = <<>>
    /\ writer = NoWriter
    /\ proj_file = <<>>
    /\ frames = <<>>
    /\ reloaded = <<>>
    /\ pc = "groups"

GroupsFrame ==
    UNCHANGED <<lexer, emitted, proj_obj, obj_stack, cur_obj, status, base,
                writer, proj_file, reloaded>>

\* The registered file references.
FileRefs(h) ==
    {j \in DOMAIN h[Objects(h)].keys :
        DictGet(h[h[Objects(h)].vals[j].id], Str(T_isa), None) = Str(PBXFileReference)}

\* add_source_file registers the file reference, add_isa(pbx_file_ref_id,
\* pbx_file_entry), and calls create_groups_for_file(file_path,
\* pbx_file_ref_id).
G_call ==
    /\ pc = "groups" /\ frames = <<>>
    /\ Cardinality(FileRefs(heap)) < MaxFiles
    /\ \E file_path \in GroupPaths :
          LET file_ref_id == Str(get_unique_id(file_path))
              h == [heap EXCEPT ![Objects(heap)] =
                                   DictSet(@, file_ref_id, Ref(Len(heap) + 1))]
                       \o <<FileEntry(file_path)>>
          IN /\ get_isa(heap, file_ref_id) = None
             /\ heap' = h
             /\ frames' = <<GroupCall(h, file_path, file_ref_id)>>
    /\ pc' = pc
    /\ GroupsFrame

\* A turn of the loop that goes on to the next name.
G_descend ==
    /\ pc = "groups" /\ frames # <<>>
    /\ Head(frames).i <= Len(Head(frames).group_list)
    /\ GroupTurn(heap, Head(frames)).how = "loop"
    /\ heap' = GroupTurn(heap, Head(frames)).heap
    /\ frames' = <<GroupTurn(heap, Head(frames)).f>>
    /\ pc' = pc
    /\ GroupsFrame

\* The turn that appends the file reference and leaves the loop.
G_append ==
    /\ pc = "groups" /\ frames # <<>>
    /\ Head(frames).i <= Len(Head(frames).group_list)
    /\ GroupTurn(heap, Head(frames)).how = "done"
    /\ heap' = GroupTurn(heap, Head(frames)).heap
    /\ frames' = <<>>
    /\ pc' = pc
    /\ GroupsFrame

\* A turn that raises (KeyError, 'ISA ID Collision!').
G_raise ==
    /\ pc = "groups" /\ frames # <<>>
    /\ Head(frames).i <= Len(Head(frames).group_list)
    /\ GroupTurn(heap, Head(frames)).how = "raised"
    /\ pc' = "groups_raised"
    /\ UNCHANGED <<heap, frames>>
    /\ GroupsFrame

\* The loop ends with no name left (a path of .. only).
G_return ==
    /\ pc = "groups" /\ frames # <<>>
    /\ Head(frames).i > Len(Head(frames).group_list)
    /\ frames' = <<>>
    /\ UNCHANGED <<heap, pc>>
    /\ GroupsFrame

NextGroups ==
    \/ G_call
    \/ G_descend
    \/ G_append
    \/ G_raise
    \/ G_return

SpecGroups == InitGroups /\ [][NextGroups]_vars

\* ------------------------------------------------- preprocessor defines

T_targets == <<"t", "a", "r", "g", "e", "t", "s">>
T_buildConfigurationList == <<"b", "u", "i", "l", "d", "C", "o", "n", "f", "i", "g", "u", "r", "a", "t", "i", "o", "n", "L", "i", "s", "t">>
T_buildConfigurations == <<"b", "u", "i", "l", "d", "C", "o", "n", "f", "i", "g", "u", "r", "a", "t", "i", "o", "n", "s">>
T_buildSettings == <<"b", "u", "i", "l", "d", "S", "e", "t", "t", "i", "n", "g", "s">>
T_GCC_PREPROCESSOR_DEFINITIONS ==
    <<"G", "C", "C", "_", "P", "R", "E", "P", "R", "O", "C", "E", "S", "S", "O", "R", "_", "D", "E", "F", "I", "N", "I", "T", "I", "O", "N", "S">>
\* The ids and names of the target, its configuration list and configuration
\* in the project read.
TargetId == <<"T">>
ConfigListId == <<"L">>
ConfigId == <<"C">>
TargetName == <<"t">>
ConfigName == <<"D">>

\* k in d, for a dict d.
DictHas(o, k) == \E i \in DOMAIN o.keys : o.keys[i] = k

\* v in l, for a list l.
ListHas(o, v) == \E i \in DOMAIN o.vals : o.vals[i] = v

RECURSIVE FirstNamed(_, _, _)
\* The loops of get_target and _get_config_from_list: the first object among
\* those registered under ids whose name is the given one, None when there
\* is none.
FirstNamed(h, ids, name) ==
    IF ids = <<>> THEN None
    ELSE LET o == get_isa(h, Head(ids))
         IN IF DictGet(h[o.id], Str(T_name), None) = Str(name) THEN o
            ELSE FirstNamed(h, Tail(ids), name)

get_target(h, target_name) ==
    LET root_object == get_isa(h, DictGet(h[proj_obj], Str(T_rootObject), None))
        targets == DictGet(h[root_object.id], Str(T_targets), None)
    IN FirstNamed(h, h[targets.id].vals, target_name)

get_config_from_list(h, build_config_list, config_name) ==
    LET build_configurations ==
            DictGet(h[build_config_list.id], Str(T_buildConfigurations), None)
    IN FirstNamed(h, h[build_configurations.id].vals, config_name)

get_target_configuration(h, target_name, config_name) ==
    LET target == get_target(h, target_name)
    IN IF target # None
       THEN get_config_from_list(
                h,
                get_isa(h, DictGet(h[target.id], Str(T_buildConfigurationList), None)),
                config_name)
       ELSE None

\* '"{}"'.format(define)
Quoted(text) == <<QUOTE>> \o text \o <<QUOTE>>

RECURSIVE AppendDefines(_, _)
\* The for loop of add_preprocessor_defines on the list object o: a define
\* that is not in the list is appended, between quotes when it holds an =.
AppendDefines(o, defines) ==
    IF defines = <<>> THEN o
    ELSE LET define == Head(defines)
         IN AppendDefines(
                IF ~ListHas(o, Str(define))
                THEN ListAppend(o, Str(IF \E i \in DOMAIN define : define[i] = EQUALS
                                       THEN Quoted(define) ELSE define))
                ELSE o,
                Tail(defines))

\* add_preprocessor_defines in heap h: the heap it leaves, raised when an
\* exception left the call (no such target or configuration: config is None).
add_preprocessor_defines(h, target_name, config_name, defines) ==
    LET config == get_target_configuration(h, target_name, config_name)
    IN IF config = None
       THEN [heap |-> h, raised |-> TRUE]
       ELSE LET bs == DictGet(h[config.id], Str(T_buildSettings), None).id
                key == Str(T_GCC_PREPROCESSOR_DEFINITIONS)
                h1 == IF ~DictHas(h[bs], key)
                      THEN [h EXCEPT ![bs] = DictSet(@, key, Ref(Len(h) + 1))]
                               \o <<NewList>>
                      ELSE h
                config_defines == DictGet(h1[bs], key, None).id
            IN [heap |-> [h1 EXCEPT ![config_defines] = AppendDefines(@, defines)],
                raised |-> FALSE]

\* Most entries of the list of defines.
MaxDefines == 4
\* Most defines given to one call.
MaxArgs == 2

\* The defines given to the calls, plain and of the form NAME=VALUE.
DefineNames == {<<"A">>, <<"B">>, <<"C", EQUALS, "1">>, <<"D", EQUALS, "2">>}

DefineArgs == UNION {[1..n -> DefineNames] : n \in 1..MaxArgs}

\* The lists of defines a project read from a file may hold: no duplicates.
StartDefines ==
    {<<>>, <<Str(<<"A">>)>>, <<Str(Quoted(<<"C", EQUALS, "1">>))>>,
     <<Str(<<"B">>), Str(<<"A">>)>>}

\* A project as parse_lex leaves it: one target with one configuration whose
\* buildSettings are object 9.
DefinesHeap ==
    <<[kind |-> "dict",
       keys |-> <<Str(T_rootObject), Str(T_objects)>>,
       vals |-> <<Str(RootId), Ref(2)>>],
      [kind |-> "dict",
       keys |-> <<Str(RootId), Str(TargetId), Str(ConfigListId), Str(ConfigId)>>,
       vals |-> <<Ref(3), Ref(5), Ref(6), Ref(8)>>],
      [kind |-> "dict",
       keys |-> <<Str(T_targets)>>,
       vals |-> <<Ref(4)>>],
      [kind |-> "list", keys |-> <<>>, vals |-> <<Str(TargetId)>>],
      [kind |-> "dict",
       keys |-> <<Str(T_name), Str(T_buildConfigurationList)>>,
       vals |-> <<Str(TargetName), Str(ConfigListId)>>],
      [kind |-> "dict",
       keys |-> <<Str(T_buildConfigurations)>>,
       vals |-> <<Ref(7)>>],
      [kind |-> "list", keys |-> <<>>, vals |-> <<Str(ConfigId)>>],
      [kind |-> "dict",
       keys |-> <<Str(T_name), Str(T_buildSettings)>>,
       vals |-> <<Str(ConfigName), Ref(9)>>],
      NewDict>>

InitDefines ==
    /\ \/ heap = DefinesHeap
       \/ \E l \in StartDefines :
             heap = [DefinesHeap EXCEPT ![9] =
                        DictSet(@, Str(T_GCC_PREPROCESSOR_DEFINITIONS), Ref(10))]
                        \o <<[kind |-> "list", keys |-> <<>>, vals |-> l]>>
    /\ proj_obj = 1
    /\ obj_stack = <<>>
    /\ cur_obj = None
    /\ status = "finished"
    /\ lexer = NoLexer
    /\ emitted = <<>>
    /\ base = <<>>
    /\ writer = NoWriter
    /\ proj_file = <<>>
    /\ frames = <<>>
    /\ reloaded = <<>>
    /\ pc = "defines"

\* The list of defines of the configuration, empty while the key is absent.
ConfigDefines(h) ==
    IF DictHas(h[9], Str(T_GCC_PREPROCESSOR_DEFINITIONS))
    THEN h[DictGet(h[9], Str(T_GCC_PREPROCESSOR_DEFINITIONS), None).id].vals
    ELSE <<>>

\* A call for the target and configuration of the project.
D_add ==
    /\ pc = "defines"
    /\ \E defines \in DefineArgs :
          LET r == add_preprocessor_defines(heap, TargetName, ConfigName, defines)
          IN /\ ~r.raised
             /\ Len(ConfigDefines(r.heap)) <= MaxDefines
             /\ heap' = r.heap
    /\ UNCHANGED <<lexer, emitted, proj_obj, obj_stack, cur_obj, status, base,
                   writer, proj_file, frames, reloaded, pc>>

\* A call for a target the project does not have: config is None and
\* config['buildSettings'] raises.
D_raise ==
    /\ pc = "defines"
    /\ \E defines \in DefineArgs :
          add_preprocessor_defines(heap, <<"x">>, ConfigName, defines).raised
    /\ pc' = "defines_raised"
    /\ UNCHANGED <<lexer, emitted, heap, proj_obj, obj_stack, cur_obj, status,
                   base, writer, proj_file, frames, reloaded>>

NextDefines ==
    \/ D_add
    \/ D_raise

SpecDefines == InitDefines /\ [][NextDefines]_vars

\* ------------------------------------------- properties of the export

RECURSIVE HasOther(_, _)
\* The tree below v holds a value that is no map, no list and no str.
HasOther(h, v) ==
    IF v.t = "ref"
    THEN \E i \in DOMAIN h[v.id].vals : HasOther(h, h[v.id].vals[i])
    ELSE v.t # "str"

\* The document in memory is made of maps, lists and text scalars only.
TextOnly == ~HasOther(heap, Ref(proj_obj))

C8_NoPartialOutput == pc = "export_raised" => proj_file = PriorContent

\* C9: a document holding, as a map value or a list element, a value that is
\* no map, no list and no str is never exported to the end: the export raises.
C9_InvalidValueFatal ==
    pc \in {"exported", "reloaded"} => TextOnly

StartsAt(text, p, prefix) ==
    /\ p + Len(prefix) - 1 <= Len(text)
    /\ SubSeq(text, p, p + Len(prefix) - 1) = prefix

NewlineCount(text) == Cardinality({i \in DOMAIN text : text[i] = NL})

\* The positions at which the lines of text begin.
LineStarts(text) ==
    {p \in DOMAIN text : p = 1 \/ text[p - 1] = NL}

\* The text is one line: it ends with its only newline.
IsOneLine(text) ==
    text # <<>> /\ Last(text) = NL /\ NewlineCount(text) = 1

\* The text is a block at depth d for key k: a header line, a footer line and
\* between them only lines indented one level deeper.
IsBlock(text, d, k) ==
    /\ text # <<>>
    /\ Last(text) = NL
    /\ \A p \in LineStarts(text) :
          IF p = 1
          THEN StartsAt(text, p, Tabs(d) \o k \o <<SP, EQUALS, SP, LBRACE, SP, NL>>)
          ELSE IF \A q \in LineStarts(text) : q <= p
               THEN SubSeq(text, p, Len(text))
                        = Tabs(d) \o <<RBRACE, SEMICOLON, SP, NL>>
               ELSE StartsAt(text, p, Tabs(d + 1))

\* The step that ends a nested map: recursive_write has returned for it and
\* its footer is written.
EndsNestedMap ==
    /\ Writing /\ TopObj.kind = "dict" /\ ~AtEntry /\ Len(frames) >= 2
    /\ frames' = NextEntry(Tail(frames))

\* The parent map of the nested map being ended has, beside it, a map of a
\* condensed kind.
HasCondensedSibling ==
    LET parent == heap[frames[2].obj]
    IN \E j \in DOMAIN parent.vals :
          /\ j # frames[2].i
          /\ parent.vals[j].t = "ref"
          /\ heap[parent.vals[j].id].kind = "dict"
          /\ IsCondensedKind(heap[parent.vals[j].id])

\* C7: a map nested in a map whose isa is PBXFileReference or PBXBuildFile is
\* written, from its indentation to its footer, on one line followed by one
\* newline; a sibling map of another kind is written as a block whose entries
\* are on lines of their own, one level deeper than the header.
C7_CondensationScenario ==
    [][EndsNestedMap =>
         LET seg == SubSeq(proj_file', Head(frames).start + 1, Len(proj_file'))
             k == Format(heap[frames[2].obj].keys[frames[2].i])
             d == writer'.indent
         IN IF IsCondensedKind(TopObj)
            THEN /\ IsOneLine(seg)
                 /\ StartsAt(seg, 1, Tabs(d) \o k \o <<SP, EQUALS, SP, LBRACE, SP>>)
                 /\ StartsAt(seg, Len(seg) - 3, <<RBRACE, SEMICOLON, SP, NL>>)
            ELSE HasCondensedSibling => IsBlock(seg, d, k)]_vars

\* What the step appends to the destination file.
Appended == SubSeq(proj_file', Len(proj_file) + 1, Len(proj_file'))

\* The number of maps of a condensed kind that have been entered and whose
\* footer is not written yet.
CondensedDepth == Cardinality({j \in DOMAIN frames : frames[j].condensed})

\* C17: from the entry into a map of a condensed kind to its footer, no step
\* writes a tab or a newline, whatever the map holds (scalars, lists, maps,
\* maps of a condensed kind); the step that ends it writes the footer and one
\* newline.
C17_CondensedSubtree ==
    [][(Writing /\ CondensedDepth > 0)
          => IF CondensedDepth = 1 /\ Head(frames).condensed /\ ~AtEntry
             THEN Appended = <<RBRACE, SEMICOLON, SP, NL>>
             ELSE \A i \in DOMAIN Appended : Appended[i] \notin {TAB, NL}]_vars

\* C20: while a document of maps, lists and text scalars is written, the
\* writer's indent is 1 plus the number of containers open below the root
\* (one active call of recursive_write for the root and one for each of them),
\* so never less than 1; when the root's call has returned the indent is 1
\* and condensed is off.
C20_WriterBalanced ==
    TextOnly
        => /\ pc = "writing"
                => /\ writer.indent = 1 + (Len(frames) - 1)
                   /\ writer.indent >= 1
           /\ pc \in {"exported", "reloaded"}
                => /\ writer.indent = 1
                   /\ ~writer.condensed

\* C20 witness: the export of a document with a map of a condensed kind that
\* holds a container has returned.
C20_Witness ==
    /\ pc = "exported"
    /\ TextOnly
    /\ Len(heap) = 3
    /\ IsCondensedKind(heap[2])
    /\ \E i \in DOMAIN heap[2].vals : heap[2].vals[i] = Ref(3)

\* ------------------------------------------- properties of the group tree

\* The id of the children list of the object with id g.
ChildrenOf(h, g) == DictGet(h[g], Str(T_children), None).id

RECURSIVE GroupAt(_, _, _)
\* The group reached from group g through child groups with the given names
\* in order, 0 when one of them is missing.
GroupAt(h, g, names) ==
    IF names = <<>> THEN g
    ELSE LET ids == h[ChildrenOf(h, g)].vals
             Is(j) == /\ get_isa(h, ids[j]).t = "ref"
                      /\ DictGet(h[get_isa(h, ids[j]).id], Str(T_isa), None)
                             = Str(T_PBXGroup)
                      /\ DictGet(h[get_isa(h, ids[j]).id], Str(T_name), None)
                             = Str(Head(names))
             Found == {j \in DOMAIN ids : Is(j)}
         IN IF Found = {} THEN 0
            ELSE GroupAt(h, get_isa(h, ids[CHOOSE j \in Found : \A g2 \in Found : j <= g2]).id,
                         Tail(names))

\* C18: a call for the path g1/.../gn/file ends without an exception, and the
\* turn that appends the file reference appends it to the children of the
\* group reached from the main group through g1..gn, which by then exist and
\* are registered, and changes nothing else; also when the file's name is the
\* name of one of g1..gn.
C18_GroupPlacement ==
    [][(pc = "groups" /\ frames # <<>>)
          => /\ pc' = "groups"
             /\ (frames' = <<>> /\ Head(frames).i <= Len(Head(frames).group_list))
                  => LET f == Head(frames)
                         dirs == SubSeq(f.group_list, 1, Len(f.group_list) - 1)
                         target == GroupAt(heap, main_group(heap), dirs)
                     IN /\ target # 0
                        /\ heap' = [heap EXCEPT ![ChildrenOf(heap, target)] =
                                                   ListAppend(@, f.file_ref_id)]]_vars

\* ------------------------------------------- properties of the defines

\* No entry of the sequence occurs twice.
NoDuplicates(l) == \A i, j \in DOMAIN l : l[i] = l[j] => i = j

\* C21: after any sequence of calls of add_preprocessor_defines on a
\* configuration whose list of defines started without duplicates the list
\* holds no entry twice, and a second call with the same defines (NAME=VALUE
\* ones included) leaves what the first call left.
C21_DefinesIdempotent ==
    pc = "defines"
        => /\ NoDuplicates(ConfigDefines(heap))
           /\ \A defines \in DefineArgs :
                 LET once == add_preprocessor_defines(heap, TargetName, ConfigName,
                                                      defines).heap
                 IN add_preprocessor_defines(once, TargetName, ConfigName,
                                             defines).heap = once

\* ------------------------------------------- properties of the tokenizer

RECURSIVE IsStringContent(_)
\* Text that may stand between the quotes of a quoted string: no newline, no
\* quote except after a backslash, and a backslash only before a quote or n.
IsStringContent(c) ==
    IF c = <<>> THEN TRUE
    ELSE IF Head(c) = BACKSLASH
         THEN /\ Len(c) >= 2
              /\ c[2] \in {QUOTE, "n"}
              /\ IsStringContent(SubSeq(c, 3, Len(c)))
         ELSE /\ Head(c) \notin {QUOTE, NL, TAB, CR, FF}
              /\ IsStringContent(Tail(c))

\* A quoted string: an opening quote, content, a closing quote.
IsQuotedString(text) ==
    /\ Len(text) >= 2
    /\ Head(text) = QUOTE
    /\ Last(text) = QUOTE
    /\ IsStringContent(SubSeq(text, 2, Len(text) - 1))

\* C4: an input that is one quoted string (content of word characters,
\* spaces, punctuation, escaped quotes and backslash-n) is tokenized to exactly
\* one WORD token whose text is the input, quotes and escapes included.
C4_QuotedStringFidelity ==
    (pc = "lexed" /\ IsQuotedString(lexer.lexdata))
        => emitted = <<Tok("WORD", lexer.lexdata)>>

\* C13: a character no rule matches emits no token and moves the scan
\* position by one, leaving the rest of the lexer as it was, so the tokens of
\* the remaining input are produced as from any other position; and on every
\* input the tokenizer comes to the end of the input.
C13_IllegalRecoverable ==
    /\ [][(pc = "lex" /\ ScanAt(lexer) = "error")
            => /\ lexer' = [lexer EXCEPT !.lexpos = @ + 1]
               /\ emitted' = emitted]_vars
    /\ <>(pc = "lexed" /\ lexer.lexpos > Len(lexer.lexdata))

\* C13 witness: a\; has been tokenized to the word a and a semicolon, the
\* backslash skipped.
C13_Witness ==
    /\ pc = "lexed"
    /\ lexer.lexdata = <<"a", BACKSLASH, SEMICOLON>>
    /\ emitted = <<Tok("WORD", <<"a">>), Tok("SEMICOLON", <<SEMICOLON>>)>>

\* C15: while comment_open is set, no turn of the scan loop emits a token or
\* changes the string accumulator, whichever of the quoted string and the
\* block comment was opened first.
C15_CommentIsolation ==
    [][(pc = "lex" /\ lexer.comment_open)
          => /\ emitted' = emitted
             /\ lexer'.string = lexer.string]_vars

\* C16: a space or a tab at the scan position is appended to the string
\* accumulator when a quoted string is open and dropped otherwise; in both
\* cases no token is emitted for it.
C16_WhitespaceInStrings ==
    [][(pc = "lex" /\ At(lexer.lexdata, lexer.lexpos) \in {SP, TAB})
          => /\ emitted' = emitted
             /\ lexer'.lexpos = lexer.lexpos + 1
             /\ lexer'.string =
                    IF lexer.string_open
                    THEN lexer.string \o <<At(lexer.lexdata, lexer.lexpos)>>
                    ELSE lexer.string]_vars

\* ------------------------------------------- properties of parse_lex alone

\* Index of the last token of the given type in emitted, 0 when there is none.
LastIndexOf(type) ==
    LET I == {i \in DOMAIN emitted : emitted[i].type = type}
    IN IF I = {} THEN 0 ELSE CHOOSE i \in I : \A j \in I : j <= i

\* The tokens after the last opener of the given type, the last token excluded.
BodySince(type) == SubSeq(emitted, LastIndexOf(type) + 1, Len(emitted) - 1)

\* The stream's last token closes (with closeType) the container its last
\* openType token opened.
JustClosed(openType, closeType) ==
    /\ emitted # <<>>
    /\ Last(emitted).type = closeType
    /\ LastIndexOf(openType) > 0

\* C2: a parse whose input ends while containers are still open does not
\* return normally: parse_lex leaves its loop at the end of input only with an
\* empty container stack.
C2_UnbalancedFailsClosed == status = "eof" => obj_stack = <<>>

\* The words of a token sequence, as values.
WordVals(toks) ==
    LET W == {i \in DOMAIN toks : toks[i].type = "WORD"}
    IN [j \in 1..Cardinality(W) |-> Str(Pick(toks, W)[j].value)]

\* The map a flat run of key/value words denotes under overwrite semantics:
\* each key once, at the place of its first assignment, with the value of its
\* last assignment.
OverwriteMap(W) ==
    LET m == Len(W) \div 2
        K == [j \in 1..m |-> W[2 * j - 1]]
        V == [j \in 1..m |-> W[2 * j]]
        First == {j \in 1..m : \A h \in 1..(j - 1) : K[h] # K[j]}
        LastOf(j) == CHOOSE h \in 1..m :
                        K[h] = K[j] /\ \A g \in (h + 1)..m : K[g] # K[j]
    IN [kind |-> "dict",
        keys |-> Pick(K, First),
        vals |-> Pick([j \in 1..m |-> V[LastOf(j)]], First)]

\* C5: when a map's body { k1 = v1; k2 = v2; ... } assigns a key more than
\* once, the map built for it holds each key once, in the order of the keys'
\* first occurrences, mapped to the value assigned last.
C5_OverwriteSemantics ==
    LET body == BodySince("LBRACE")
    IN (/\ JustClosed("LBRACE", "RBRACE")
        /\ \A i \in DOMAIN body : body[i].type \in {"WORD", "EQUALS", "SEMICOLON"})
       => /\ status # "raised"
          /\ heap[Len(heap)] = OverwriteMap(WordVals(body))

\* C5 witness: { a x b y a z } with a # b and x # z has been parsed.
C5_Witness ==
    /\ status = "finished"
    /\ Len(emitted) = 8
    /\ emitted[1].type = "LBRACE"
    /\ \A i \in 2..7 : emitted[i].type = "WORD"
    /\ emitted[2].value = emitted[6].value
    /\ emitted[2].value # emitted[4].value
    /\ emitted[3].value # emitted[7].value
    /\ Len(heap[proj_obj].keys) = 2

\* A list body: words at the odd places, commas at the even places (so a
\* body of even length ends with a comma).
IsCommaList(body) ==
    \A i \in DOMAIN body :
        body[i].type = (IF i % 2 = 1 THEN "WORD" ELSE "COMMA")

\* C6: a parenthesised list w1, w2, ..., wn, with or without a comma after
\* wn, is parsed to the list of exactly w1 .. wn in that order.
C6_ListTrailingSeparator ==
    LET body == BodySince("LPAREN")
    IN (JustClosed("LPAREN", "RPAREN") /\ IsCommaList(body))
       => /\ status # "raised"
          /\ heap[Len(heap)] = [kind |-> "list", keys |-> <<>>,
                                 vals |-> WordVals(body)]
          /\ \A i \in DOMAIN obj_stack : obj_stack[i] # Len(heap)

\* C6 witness: a list ( w1, w2, ) with a trailing comma has been closed.
C6_Witness ==
    /\ JustClosed("LPAREN", "RPAREN")
    /\ IsCommaList(BodySince("LPAREN"))
    /\ Len(BodySince("LPAREN")) = 4
    /\ Len(heap[Len(heap)].vals) = 2

\* C10: an Equals token received with an empty pending register makes the
\* parse raise at that token, after which nothing more happens and no
\* document is assigned; with a pending key it changes neither the container
\* stack nor the pending register.
C10_MalformedAssignment ==
    [][/\ (status = "running" /\ emitted' = Append(emitted, Tok("EQUALS", <<EQUALS>>)))
          => IF cur_obj = None
             THEN status' = "raised" /\ proj_obj' = proj_obj /\ heap' = heap
             ELSE /\ status' = "running"
                  /\ obj_stack' = obj_stack
                  /\ cur_obj' = cur_obj
                  /\ heap' = heap
       /\ status = "raised" => (status' = "raised" /\ proj_obj' = proj_obj)]_vars

\* C10 witness: the parse has raised at an Equals token.
C10_Witness ==
    /\ status = "raised"
    /\ emitted # <<>>
    /\ Last(emitted).type = "EQUALS"
    /\ cur_obj = None

\* The step consumes a token of one of the given types.
Consumes(types) ==
    /\ status = "running"
    /\ emitted' # emitted
    /\ Last(emitted').type \in types

\* C11: a closing brace or parenthesis taken while the container stack is
\* empty ends the parse with an exception: nothing is popped, no object is
\* changed and self.proj_obj is not assigned.
C11_UnmatchedClose ==
    [][(Consumes({"RBRACE", "RPAREN"}) /\ obj_stack = <<>>)
          => /\ status' = "raised"
             /\ obj_stack' = <<>>
             /\ heap' = heap
             /\ proj_obj' = proj_obj]_vars

\* C11 witness: the stream  a )  has raised on its closing parenthesis.
C11_Witness ==
    /\ status = "raised"
    /\ Len(emitted) = 2
    /\ emitted[1].type = "WORD"
    /\ emitted[2].type = "RPAREN"
    /\ obj_stack = <<>>

\* C14: a closing brace that does not end the parse with an exception pops a
\* map (an object an opening brace created), and a closing parenthesis a
\* list (an object an opening parenthesis created): no document is built from
\* a stream whose closing delimiter is of the other kind than the open
\* container.
C14_NestingMatchesBrackets ==
    [][/\ (Consumes({"RBRACE"}) /\ status' # "raised")
            => Top(PState).kind = "dict"
       /\ (Consumes({"RPAREN"}) /\ status' # "raised")
            => Top(PState).kind = "list"]_vars

\* The text is the value of a WORD token of the stream.
IsWordOfInput(text) ==
    \E i \in DOMAIN emitted : emitted[i] = Tok("WORD", text)

RECURSIVE AllFromWords(_, _)
\* Below v every map key, every scalar and every list element is a str that
\* a WORD token delivered: none is None.
AllFromWords(h, v) ==
    IF v.t = "ref"
    THEN /\ \A i \in DOMAIN h[v.id].keys :
               h[v.id].keys[i].t = "str" /\ IsWordOfInput(h[v.id].keys[i].s)
         /\ \A i \in DOMAIN h[v.id].vals : AllFromWords(h, h[v.id].vals[i])
    ELSE v.t = "str" /\ IsWordOfInput(v.s)

\* C19: in the document of a finished parse every map key, every scalar value
\* and every list element is the text of a WORD token of the input: no
\* container is stored under None and None is never appended to a list.
C19_NoAbsentKeys ==
    status = "finished" => AllFromWords(heap, Ref(proj_obj))

====
